---- MODULE Spec2Model ----
(***************************************************************************)
(* Model of src/gym/app.py: a Flask application that keeps members,        *)
(* payments and attendance in three worksheets of one spreadsheet.         *)
(*                                                                         *)
(* A worksheet is a sequence of rows, row 1 being the header row; a row    *)
(* is a tuple of cells addressed by 1-based column.  Every request is      *)
(* served by a worker thread; each call to the spreadsheet is one atomic   *)
(* step, and the Python between two calls is local to the request, so a    *)
(* handler that writes is one action per spreadsheet call it makes; a      *)
(* handler that only reads and renders is a single action.  A failing      *)
(* spreadsheet call raises and leaves the worksheet as it was.             *)
(***************************************************************************)
EXTENDS Naturals, Sequences, FiniteSets

VARIABLES
    members_sheet,     \* worksheet "members"
    attendance_sheet,  \* worksheet "attendance"
    payments_sheet,    \* worksheet "payments", or NoSheet before startup created it
    booted,            \* module-level code (lines 35-64) has run
    threaded,          \* app.run serves requests on concurrent threads (line 332)
    session,           \* per browser: the keys of its Flask session
    clock,             \* index of the current instant in Stamps
    req,               \* per worker: the request being served and its locals
    response,          \* the response being sent to the browser, or NoResponse
    served,            \* number of requests accepted so far
    outcomes           \* history: per (member_id, date), the messages check-ins returned

vars == <<members_sheet, attendance_sheet, payments_sheet, booted, threaded, session,
          clock, req, response, served, outcomes>>

sheets == <<members_sheet, attendance_sheet, payments_sheet>>
config == <<booted, threaded>>

----------------------------------------------------------------------------
(* Bounds and input domains *)

\* requests accepted in a run
MaxRequests == 3

Workers == {1, 2}
Clients == {"admin", "guest"}

None == "None"
NoSheet == <<"no worksheet">>

\* instants the clock passes through: (date.today().isoformat(), strftime("%H:%M:%S"))
Stamps == << [date |-> "2024-03-01", time |-> "09:00:00", txn |-> "TXN1709283600"],
             [date |-> "2024-03-01", time |-> "18:30:00", txn |-> "TXN1709317800"],
             [date |-> "2024-03-02", time |-> "08:00:00", txn |-> "TXN1709366400"] >>

MemberIds == {"M001", "M002"}
Dates == {Stamps[k].date : k \in 1..Len(Stamps)}
Keys == MemberIds \X Dates

----------------------------------------------------------------------------
(* The spreadsheet client *)

\* Worksheet.get_all_values(): every row, header included
get_all_values(sheet) == sheet

\* Worksheet.get_all_records(): the rows after the header, each as a mapping
\* from the header's cell to the row's cell in that column.  The cells of the
\* model are the strings the application writes (identifiers such as "M001",
\* ISO dates, HH:MM:SS times, "" for an empty cell).
get_all_records(sheet) ==
    IF Len(sheet) <= 1 THEN << >>
    ELSE [k \in 1..(Len(sheet) - 1) |->
            [h \in {sheet[1][c] : c \in 1..Len(sheet[1])} |->
                sheet[k + 1][CHOOSE c \in 1..Len(sheet[1]) : sheet[1][c] = h]]]

\* dict.get(key): the value, or None when the key is absent
Get(row, key) == IF key \in DOMAIN row THEN row[key] ELSE None

\* Worksheet.append_row(values): the row goes after the response row
append_row(sheet, values) == Append(sheet, values)

\* Worksheet.update_cell(row, col, value)
update_cell(sheet, row, col, value) ==
    IF row \in DOMAIN sheet /\ col \in DOMAIN sheet[row]
    THEN [sheet EXCEPT ![row][col] = value]
    ELSE sheet

AttendanceHeader == <<"member_id", "date", "entry_time", "exit_time">>
MembersHeader == <<"member_id", "name", "phone", "plan", "fees", "start_date", "end_date">>
\* line 40
PaymentsHeader == <<"transaction_id", "member_id", "amount", "date", "type", "notes">>

\* date.today().isoformat() and datetime.now().strftime("%H:%M:%S")
Today == Stamps[clock].date
NowTime == Stamps[clock].time

----------------------------------------------------------------------------
(* Requests *)

Idle == [pc |-> "idle", route |-> "", client |-> "", member_id |-> "", today |-> "",
         now_time |-> "", i |-> 0, fees |-> "", end_date |-> ""]

\* the answer to a request: the template rendered or the redirect, and the
\* message shown (flash or template argument)
Response(route, c, form, page, message, member_id, date) ==
    [route |-> route, client |-> c, form |-> form, page |-> page,
     message |-> message, member_id |-> member_id, date |-> date]

NoResponse == Response("", "", << >>, "", "", "", "")

\* a response leaves the server before the next step is taken
Quiet == response = NoResponse

Busy(w) == req[w].pc # "idle"

\* worker w is about to make the spreadsheet call named pc
At(w, pc) == Quiet /\ req[w].pc = pc

\* a free thread takes the next request; threads are interchangeable, so the
\* lowest free one stands for any of them.  Without threads a request is
\* taken only when none is being served.
Accept(w) ==
    /\ Quiet
    /\ booted
    /\ ~Busy(w)
    /\ \A v \in Workers : v < w => Busy(v)
    /\ served < MaxRequests
    /\ threaded \/ \A v \in Workers : ~Busy(v)

\* no handler catches an exception of the spreadsheet client: the request
\* ends with the server's error page
UnhandledException == "500 Internal Server Error"

\* a request answered in its first step
Answer(w, r) ==
    /\ response' = r
    /\ served' = served + 1
    /\ UNCHANGED req

\* a request whose first step leaves it waiting for its next spreadsheet call
Continue(w, locals) ==
    /\ req' = [req EXCEPT ![w] = locals]
    /\ served' = served + 1
    /\ UNCHANGED response

\* a request in flight is answered
Finish(w, page, message) ==
    /\ response' = Response(req[w].route, req[w].client, << >>, page, message,
                            req[w].member_id, "")
    /\ req' = [req EXCEPT ![w] = Idle]
    /\ UNCHANGED served

----------------------------------------------------------------------------
(* checkin, lines 302-326 *)

\* column 4 of an attendance row: exit_time (line 312)
ExitColumn == 4

\* variant: the scan compares the member_id only
FirstMatchAnyDate(records, member_id, today) ==
    LET hits == {k \in 1..Len(records) : Get(records[k], "member_id") = member_id}
    IN IF hits = {} THEN 0
       ELSE (CHOOSE k \in hits : \A j \in hits : k <= j) + 1

\* variant: the scan keeps the last matching record
LastMatch(records, member_id, today) ==
    LET hits == {k \in 1..Len(records) :
                    /\ Get(records[k], "member_id") = member_id
                    /\ Get(records[k], "date") = today}
    IN IF hits = {} THEN 0
       ELSE (CHOOSE k \in hits : \A j \in hits : k >= j) + 1

\* the scan of checkin (lines 309-310): the sheet row number of the first
\* record with this member_id and date, or 0 when the loop ends without a match
FirstMatch(records, member_id, today) ==
    LET hits == {k \in 1..Len(records) :
                    /\ Get(records[k], "member_id") = member_id
                    /\ Get(records[k], "date") = today}
    IN IF hits = {} THEN 0
       ELSE (CHOOSE k \in hits : \A j \in hits : k <= j) + 1

\* variant: only a missing exit_time counts as empty
ExitEmptyNoneOnly(row) == Get(row, "exit_time") = None

\* line 311: not row.get("exit_time") or row.get("exit_time") == ""
ExitEmpty(row) == Get(row, "exit_time") \in {None, ""}

\* lines 309-322: what the handler does after reading the records
Decide(records, member_id, today) ==
    LET i == FirstMatch(records, member_id, today)
    IN IF i = 0 THEN "checkin_append"
       ELSE IF ExitEmpty(records[i - 1]) THEN "checkin_update"
       ELSE "Already Checked In Today"

Logged(k, message) == [outcomes EXCEPT ![k] = Append(@, message)]

\* lines 304-320: take the date and time, read the sheet, scan it; a complete
\* visit is answered at once, a write is the request's next step
CheckinRead(w, c, m) ==
    /\ Accept(w)
    /\ LET records == get_all_records(attendance_sheet)
           decision == Decide(records, m, Today)
       IN IF decision = "Already Checked In Today"
          THEN /\ Answer(w, Response("checkin", c, << >>, "checkin_success.html",
                                     decision, m, ""))
               /\ outcomes' = Logged(<<m, Today>>, decision)
          ELSE /\ Continue(w, [Idle EXCEPT !.pc = decision, !.route = "checkin",
                        !.client = c, !.member_id = m, !.today = Today,
                        !.now_time = NowTime,
                        !.i = FirstMatch(records, m, Today)])
               /\ UNCHANGED outcomes
    /\ UNCHANGED <<sheets, config, session, clock>>

\* variant: the time goes to the column before exit_time
CheckinUpdateEntryColumn(w) ==
    /\ At(w, "checkin_update")
    /\ attendance_sheet' = update_cell(attendance_sheet, req[w].i, ExitColumn - 1,
                                       req[w].now_time)
    /\ Finish(w, "checkin_success.html", "Exit Marked")
    /\ outcomes' = Logged(<<req[w].member_id, req[w].today>>, "Exit Marked")
    /\ UNCHANGED <<members_sheet, payments_sheet, config, session, clock>>

\* lines 312-316
CheckinUpdate(w) ==
    /\ At(w, "checkin_update")
    /\ attendance_sheet' = update_cell(attendance_sheet, req[w].i, ExitColumn,
                                       req[w].now_time)
    /\ Finish(w, "checkin_success.html", "Exit Marked")
    /\ outcomes' = Logged(<<req[w].member_id, req[w].today>>, "Exit Marked")
    /\ UNCHANGED <<members_sheet, payments_sheet, config, session, clock>>

\* lines 322-326
CheckinAppend(w) ==
    /\ At(w, "checkin_append")
    /\ attendance_sheet' = append_row(attendance_sheet,
            <<req[w].member_id, req[w].today, req[w].now_time, "">>)
    /\ Finish(w, "checkin_success.html", "Entry Marked")
    /\ outcomes' = Logged(<<req[w].member_id, req[w].today>>, "Entry Marked")
    /\ UNCHANGED <<members_sheet, payments_sheet, config, session, clock>>

\* line 307 raises: the spreadsheet could not be read
CheckinReadFails(w, c, m) ==
    /\ Accept(w)
    /\ Answer(w, Response("checkin", c, << >>, UnhandledException, "", m, ""))
    /\ UNCHANGED <<sheets, config, session, clock, outcomes>>

\* variant: the exception is caught and the entry reported all the same
StoreCallFailsSilently(w) ==
    /\ Quiet
    /\ Busy(w)
    /\ Finish(w, "checkin_success.html", "Entry Marked")
    /\ UNCHANGED <<sheets, config, session, clock, outcomes>>

\* the spreadsheet call a request in flight is waiting for raises (lines 204,
\* 215, 241, 244, 248, 312, 322): nothing is written
StoreCallFails(w) ==
    /\ Quiet
    /\ Busy(w)
    /\ Finish(w, UnhandledException, "")
    /\ UNCHANGED <<sheets, config, session, clock, outcomes>>

----------------------------------------------------------------------------
(* Startup: the payments worksheet and the migration, lines 35-64 *)

\* line 54: fee and str(fee).isdigit() and int(fee) > 0
FeeIsPositiveNumber(fee) == fee \in {"500", "800"}

\* f"INIT_{m_id}"
InitTxn(m_id) ==
    CASE m_id = "M001" -> "INIT_M001"
      [] m_id = "M002" -> "INIT_M002"
      [] OTHER -> "INIT_None"

\* lines 48-64: one ledger row per existing member with a positive fee
RECURSIVE Migrate(_, _)
Migrate(sheet, existing_members) ==
    IF existing_members = << >> THEN sheet
    ELSE LET m == Head(existing_members)
             fee == Get(m, "fees")
         IN Migrate(IF FeeIsPositiveNumber(fee)
                    THEN append_row(sheet, <<InitTxn(Get(m, "member_id")),
                            Get(m, "member_id"), fee, Get(m, "start_date"),
                            "Join (Migrated)", "Auto-migrated from current status">>)
                    ELSE sheet,
                    Tail(existing_members))

\* variant: the worksheet is created anew at every start
OpenPaymentsAnew(sheet) == <<PaymentsHeader>>

\* lines 35-40: open the payments worksheet, or create it with its header
OpenPayments(sheet) == IF sheet = NoSheet THEN <<PaymentsHeader>> ELSE sheet

\* line 44: the ledger holds at most its header
LedgerEmpty(sheet) == Len(get_all_values(sheet)) <= 1

Startup ==
    /\ ~booted
    /\ LET opened == OpenPayments(payments_sheet)
       IN payments_sheet' =
            IF LedgerEmpty(opened)
            THEN Migrate(opened, get_all_records(members_sheet))
            ELSE opened
    /\ booted' = TRUE
    /\ UNCHANGED <<members_sheet, attendance_sheet, threaded, session, clock, req,
                   response, served, outcomes>>

----------------------------------------------------------------------------
(* Session gate, login, logout: lines 79-123 *)

ADMIN_ID == "admin"
ADMIN_PASSWORD == "gym123"

UserIds == {"admin", "mallory"}
Passwords == {"gym123", "guess"}

\* line 82, negated: 'logged_in' in session
LoggedIn(c) == "logged_in" \in session[c]

Protected == {"dashboard", "members", "add_member", "renew_membership", "qr_code"}

\* login_required, lines 82-84: no 'logged_in' in the session
RequireLogin(w, c, route) ==
    /\ Accept(w)
    /\ ~LoggedIn(c)
    /\ Answer(w, Response(route, c, << >>, "redirect:login",
                          "Please login to access this page", "", ""))
    /\ UNCHANGED <<sheets, config, session, clock, outcomes>>

\* home, lines 96-100
Home(w, c) ==
    /\ Accept(w)
    /\ Answer(w, Response("home", c, << >>,
                IF LoggedIn(c) THEN "redirect:dashboard" ELSE "redirect:login",
                "", "", ""))
    /\ UNCHANGED <<sheets, config, session, clock, outcomes>>

\* login, GET: line 117
LoginGet(w, c) ==
    /\ Accept(w)
    /\ Answer(w, Response("login", c, << >>, "login.html", "", "", ""))
    /\ UNCHANGED <<sheets, config, session, clock, outcomes>>

\* variant: the password is not compared
AuthenticatedByUserId(user_id, password) == user_id = ADMIN_ID

\* line 108
Authenticated(user_id, password) == user_id = ADMIN_ID /\ password = ADMIN_PASSWORD

\* login, POST: lines 104-115
LoginPost(w, c, user_id, password) ==
    /\ Accept(w)
    /\ IF Authenticated(user_id, password)
       THEN /\ session' = [session EXCEPT ![c] = @ \cup {"logged_in", "user_id"}]
            /\ Answer(w, Response("login", c, <<user_id, password>>,
                                  "redirect:dashboard", "Login successful!", "", ""))
       ELSE /\ Answer(w, Response("login", c, <<user_id, password>>, "redirect:login",
                                  "Invalid credentials. Please try again.", "", ""))
            /\ UNCHANGED session
    /\ UNCHANGED <<sheets, config, clock, outcomes>>

\* logout, lines 119-123
Logout(w, c) ==
    /\ Accept(w)
    /\ session' = [session EXCEPT ![c] = {}]
    /\ Answer(w, Response("logout", c, << >>, "redirect:login",
                          "You have been logged out.", "", ""))
    /\ UNCHANGED <<sheets, config, clock, outcomes>>

----------------------------------------------------------------------------
(* Pages that only read: dashboard, members, add (GET), qr, renew (GET) *)

Template(route) ==
    CASE route = "dashboard" -> "dashboard.html"
      [] route = "members" -> "members.html"
      [] route = "add_member" -> "add_member.html"
      [] OTHER -> "qr.html"

\* dashboard (lines 125-187), members (189-193), add_member GET (227) and
\* qr_code (277-300): worksheets are read at most, and a page is rendered
ReadOnlyPage(w, c, route) ==
    /\ Accept(w)
    /\ LoggedIn(c)
    /\ Answer(w, Response(route, c, << >>, Template(route), "", "", ""))
    /\ UNCHANGED <<sheets, config, session, clock, outcomes>>

\* the scan of renew_membership (lines 235-236 and 266-269): the sheet row
\* number of the first record with this member_id, or 0
FindMember(all_members, member_id) ==
    LET hits == {k \in 1..Len(all_members) :
                    Get(all_members[k], "member_id") = member_id}
    IN IF hits = {} THEN 0
       ELSE (CHOOSE k \in hits : \A j \in hits : k <= j) + 1

\* renew_membership, GET: lines 264-275
RenewGet(w, c, m) ==
    /\ Accept(w)
    /\ LoggedIn(c)
    /\ Answer(w, IF FindMember(get_all_records(members_sheet), m) = 0
                 THEN Response("renew_membership", c, << >>, "redirect:members",
                               "Member not found!", m, "")
                 ELSE Response("renew_membership", c, << >>, "renew.html", "", m, ""))
    /\ UNCHANGED <<sheets, config, session, clock, outcomes>>

----------------------------------------------------------------------------
(* add_member, POST: lines 198-225 *)

Fees == {"500"}
NewFees == {"800"}
EndDates == {"2024-04-01"}
NewEndDates == {"2024-05-01"}

\* f"M{count+1:03d}"
FormatMemberId(n) ==
    CASE n = 1 -> "M001" [] n = 2 -> "M002" [] n = 3 -> "M003" [] n = 4 -> "M004"
      [] n = 5 -> "M005" [] n = 6 -> "M006" [] n = 7 -> "M007" [] n = 8 -> "M008"
      [] OTHER -> "M009"

\* generate_member_id, lines 67-71
generate_member_id ==
    LET rows == get_all_values(members_sheet)
        count == IF Len(rows) > 0 THEN Len(rows) - 1 ELSE 0
    IN FormatMemberId(count + 1)

\* generate_txn_id, lines 73-74
generate_txn_id == Stamps[clock].txn

\* lines 199-201: the identifier is computed from the row count
AddGenerateId(w, c, fees, end_date) ==
    /\ Accept(w)
    /\ LoggedIn(c)
    /\ Continue(w, [Idle EXCEPT !.pc = "add_member_row", !.route = "add_member",
                    !.client = c, !.member_id = generate_member_id,
                    !.fees = fees, !.today = Today, !.end_date = end_date])
    /\ UNCHANGED <<sheets, config, session, clock, outcomes>>

\* lines 204-212
AddAppendMember(w) ==
    /\ At(w, "add_member_row")
    /\ members_sheet' = append_row(members_sheet,
            <<req[w].member_id, "name", "phone", "-", req[w].fees, req[w].today,
              req[w].end_date>>)
    /\ req' = [req EXCEPT ![w].pc = "add_payment_row"]
    /\ UNCHANGED <<attendance_sheet, payments_sheet, config, session, clock, response,
                   served, outcomes>>

\* lines 215-225
AddAppendPayment(w) ==
    /\ At(w, "add_payment_row")
    /\ payments_sheet' = append_row(payments_sheet,
            <<generate_txn_id, req[w].member_id, req[w].fees, req[w].today,
              "Join", "Initial Membership">>)
    /\ Finish(w, "redirect:qr_code", "added successfully!")
    /\ UNCHANGED <<members_sheet, attendance_sheet, config, session, clock, outcomes>>

----------------------------------------------------------------------------
(* renew_membership, POST: lines 232-261 *)

\* f"Renewed until {new_end_date}"
RenewNote(new_end_date) ==
    CASE new_end_date = "2024-05-01" -> "Renewed until 2024-05-01"
      [] OTHER -> "Renewed until None"

\* lines 233-238 and 260-261: read the members, find the row
RenewRead(w, c, m, new_end_date, new_fees) ==
    /\ Accept(w)
    /\ LoggedIn(c)
    /\ LET i == FindMember(get_all_records(members_sheet), m)
       IN IF i = 0
          THEN Answer(w, Response("renew_membership", c, << >>,
                                  "redirect:members", "Member not found!", m, ""))
          ELSE Continue(w, [Idle EXCEPT !.pc = "renew_end_date",
                    !.route = "renew_membership", !.client = c, !.member_id = m,
                    !.i = i, !.fees = new_fees, !.end_date = new_end_date])
    /\ UNCHANGED <<sheets, config, session, clock, outcomes>>

\* line 241
RenewUpdateEndDate(w) ==
    /\ At(w, "renew_end_date")
    /\ members_sheet' = update_cell(members_sheet, req[w].i, 7, req[w].end_date)
    /\ req' = [req EXCEPT ![w].pc = "renew_fees"]
    /\ UNCHANGED <<attendance_sheet, payments_sheet, config, session, clock, response,
                   served, outcomes>>

\* line 244
RenewUpdateFees(w) ==
    /\ At(w, "renew_fees")
    /\ members_sheet' = update_cell(members_sheet, req[w].i, 5, req[w].fees)
    /\ req' = [req EXCEPT ![w].pc = "renew_payment_row"]
    /\ UNCHANGED <<attendance_sheet, payments_sheet, config, session, clock, response,
                   served, outcomes>>

\* lines 248-258
RenewAppendPayment(w) ==
    /\ At(w, "renew_payment_row")
    /\ payments_sheet' = append_row(payments_sheet,
            <<generate_txn_id, req[w].member_id, req[w].fees, Today,
              "Renewal", RenewNote(req[w].end_date)>>)
    /\ Finish(w, "redirect:members", "Payment recorded.")
    /\ UNCHANGED <<members_sheet, attendance_sheet, config, session, clock, outcomes>>

----------------------------------------------------------------------------

\* the response is sent
Send ==
    /\ ~Quiet
    /\ response' = NoResponse
    /\ UNCHANGED <<sheets, config, session, clock, req, served, outcomes>>

\* time passes
ClockAdvance ==
    /\ Quiet
    /\ clock < Len(Stamps)
    /\ clock' = clock + 1
    /\ UNCHANGED <<sheets, config, session, req, response, served, outcomes>>

----------------------------------------------------------------------------
(* The spreadsheet as the process finds it, and the specifications *)

MemberRow(m, fee) == <<m, "name", "phone", "-", fee, "2024-02-01", "2024-03-31">>

\* a new spreadsheet; members entered before the ledger existed; a ledger
\* already in use
InitialSheets ==
    { [members |-> <<MembersHeader>>, payments |-> NoSheet],
      [members |-> <<MembersHeader, MemberRow("M001", "500")>>,
       payments |-> <<PaymentsHeader>>],
      [members |-> <<MembersHeader, MemberRow("M001", "500")>>,
       payments |-> <<PaymentsHeader,
            <<"TXN1706745600", "M001", "500", "2024-02-01", "Join",
              "Initial Membership">>>>] }

Start(is_threaded, attendance, initial_sheets) ==
    /\ \E s \in initial_sheets :
          /\ members_sheet = s.members
          /\ payments_sheet = s.payments
    /\ attendance_sheet = attendance
    /\ booted = FALSE
    /\ threaded = is_threaded
    /\ session = [c \in Clients |-> {}]
    /\ clock = 1
    /\ req = [w \in Workers |-> Idle]
    /\ response = NoResponse
    /\ served = 0
    /\ outcomes = [k \in Keys |-> << >>]

Init == Start(TRUE, <<AttendanceHeader>>, InitialSheets)

Next ==
    \/ Startup
    \/ ClockAdvance
    \/ Send
    \/ \E w \in Workers, c \in Clients, m \in MemberIds : CheckinRead(w, c, m)
    \/ \E w \in Workers : CheckinUpdate(w)
    \/ \E w \in Workers : CheckinAppend(w)
    \/ \E w \in Workers, c \in Clients, m \in MemberIds : CheckinReadFails(w, c, m)
    \/ \E w \in Workers : StoreCallFails(w)
    \/ \E w \in Workers, c \in Clients, route \in Protected : RequireLogin(w, c, route)
    \/ \E w \in Workers, c \in Clients : Home(w, c)
    \/ \E w \in Workers, c \in Clients : LoginGet(w, c)
    \/ \E w \in Workers, c \in Clients, u \in UserIds, p \in Passwords : LoginPost(w, c, u, p)
    \/ \E w \in Workers, c \in Clients : Logout(w, c)
    \/ \E w \in Workers, c \in Clients, route \in Protected \ {"renew_membership"} :
            ReadOnlyPage(w, c, route)
    \/ \E w \in Workers, c \in Clients, m \in MemberIds : RenewGet(w, c, m)
    \/ \E w \in Workers, c \in Clients, f \in Fees, e \in EndDates : AddGenerateId(w, c, f, e)
    \/ \E w \in Workers : AddAppendMember(w)
    \/ \E w \in Workers : AddAppendPayment(w)
    \/ \E w \in Workers, c \in Clients, m \in MemberIds, e \in NewEndDates, f \in NewFees :
            RenewRead(w, c, m, e, f)
    \/ \E w \in Workers : RenewUpdateEndDate(w)
    \/ \E w \in Workers : RenewUpdateFees(w)
    \/ \E w \in Workers : RenewAppendPayment(w)

\* the server as app.run starts it: requests on concurrent threads
Spec == Init /\ [][Next]_vars

\* one request at a time
InitSerial == Start(FALSE, <<AttendanceHeader>>, InitialSheets)
SerialSpec == InitSerial /\ [][Next]_vars

\* an attendance sheet that already holds two rows for one member and day (left
\* by a race or by hand), with every combination of exit times, and a row of
\* another member between them
Duplicated(exit1, exit2) ==
    <<AttendanceHeader,
      <<"M001", "2024-03-01", "07:00:00", exit1>>,
      <<"M002", "2024-03-01", "07:10:00", "">>,
      <<"M001", "2024-03-01", "07:30:00", exit2>>>>

InitialDuplicates ==
    {Duplicated(e1, e2) : e1 \in {"", "07:45:00"}, e2 \in {"", "07:50:00"}}

InitDuplicates ==
    \E a \in InitialDuplicates :
        Start(FALSE, a, {[members |-> <<MembersHeader>>, payments |-> NoSheet]})
DuplicatesSpec == InitDuplicates /\ [][Next]_vars

----------------------------------------------------------------------------
(* Vocabulary of the properties *)

KeyOf(row) == <<row[1], row[2]>>

\* the sheet rows (header excluded) that belong to key k
RowsFor(sheet, k) == {r \in 2..Len(sheet) : KeyOf(sheet[r]) = k}

FirstRowFor(sheet, k) == CHOOSE r \in RowsFor(sheet, k) : \A q \in RowsFor(sheet, k) : r <= q

Successes == {"Entry Marked", "Exit Marked", "Already Checked In Today"}

\* the request of client c for route arrives in this step
Arrived(c, route) ==
    /\ served' = served + 1
    /\ IF req' = req
       THEN response'.client = c /\ response'.route = route
       ELSE \E w \in Workers : /\ req'[w] # req[w]
                               /\ req'[w].client = c
                               /\ req'[w].route = route

\* worker w, serving a request for route, takes a step
Stepped(w, route) == req[w].route = route /\ req'[w] # req[w]

\* the rows of the ledger, none while the worksheet does not exist
Ledger(sheet) == IF sheet = NoSheet THEN << >> ELSE sheet

----------------------------------------------------------------------------
(* C1 *)

\* C1: one request at a time, from a sheet without the key: once N >= 1
\* check-ins for (member_id, date) have returned their page, the sheet holds
\* exactly one row for that key and its exit time is non-empty iff N >= 2.
C1_OneRowExitIffSecondCall ==
    \A k \in Keys :
        LET n == Len(outcomes[k])
            rows == RowsFor(attendance_sheet, k)
        IN n >= 1 =>
            /\ Cardinality(rows) = 1
            /\ \A r \in rows : (attendance_sheet[r][4] # "") <=> (n >= 2)

C1_Witness ==
    \E k \in Keys :
        /\ Len(outcomes[k]) >= 2
        /\ \E r \in RowsFor(attendance_sheet, k) : attendance_sheet[r][4] # ""

----------------------------------------------------------------------------
(* C2 *)

EntriesMarked(k) == {n \in 1..Len(outcomes[k]) : outcomes[k][n] = "Entry Marked"}

\* C2: under every interleaving of check-ins, the sheet never holds more than
\* one row for a (member_id, date), and no two check-ins for it both end with
\* 'Entry Marked'.
C2_NoDuplicateEntry ==
    \A k \in Keys :
        /\ Cardinality(RowsFor(attendance_sheet, k)) <= 1
        /\ Cardinality(EntriesMarked(k)) <= 1

----------------------------------------------------------------------------
(* C3 *)

\* C3: once the exit time of an attendance row is non-empty, no later step
\* changes it.
C3_ExitWrittenOnce ==
    [][\A r \in 2..Len(attendance_sheet) :
          attendance_sheet[r][4] # "" =>
              /\ r \in DOMAIN attendance_sheet'
              /\ attendance_sheet'[r][4] = attendance_sheet[r][4]]_vars

----------------------------------------------------------------------------
(* C4 *)

OutcomesInOrder ==
    \A k \in Keys : \A n \in 1..Len(outcomes[k]) :
        outcomes[k][n] = IF n = 1 THEN "Entry Marked"
                         ELSE IF n = 2 THEN "Exit Marked"
                         ELSE "Already Checked In Today"

\* after two completed calls no check-in for the key waits for a write
NoWritePending ==
    \A w \in Workers :
        req[w].route = "checkin" => Len(outcomes[<<req[w].member_id, req[w].today>>]) < 2

\* C4: one request at a time, from a sheet without the key: the first call
\* returns 'Entry Marked', the second 'Exit Marked', the third and every later
\* one 'Already Checked In Today', and the third and later calls leave the
\* attendance sheet as it was.
C4_OutcomeSequence ==
    [][/\ OutcomesInOrder'
       /\ NoWritePending'
       /\ \A c \in Clients, k \in Keys :
            (Arrived(c, "checkin") /\ Len(outcomes[k]) >= 2
                /\ (response'.member_id = k[1] /\ Today = k[2]))
            => /\ attendance_sheet' = attendance_sheet
               /\ req' = req
               /\ \/ outcomes' = [outcomes EXCEPT
                                    ![k] = Append(@, "Already Checked In Today")]
                  \/ outcomes' = outcomes /\ response'.page = UnhandledException]_vars

C4_Witness ==
    \E k \in Keys :
        /\ Len(outcomes[k]) >= 3
        /\ outcomes[k][3] = "Already Checked In Today"
        /\ response.message = "Already Checked In Today"

----------------------------------------------------------------------------
(* C5 *)

\* every row that a step changes has the key of a check-in that took the step
OnlyOwnRowsChange ==
    \A r \in DOMAIN attendance_sheet :
        \/ r \in DOMAIN attendance_sheet' /\ attendance_sheet'[r] = attendance_sheet[r]
        \/ \E w \in Workers :
              /\ Stepped(w, "checkin")
              /\ r > 1
              /\ r \in DOMAIN attendance_sheet'
              /\ KeyOf(attendance_sheet[r]) = <<req[w].member_id, req[w].today>>
              /\ KeyOf(attendance_sheet'[r]) = KeyOf(attendance_sheet[r])

\* the row number a check-in holds designates a row with its key
IndexStillOwn ==
    \A w \in Workers :
        req[w].pc = "checkin_update" =>
            /\ req[w].i \in 2..Len(attendance_sheet)
            /\ KeyOf(attendance_sheet[req[w].i]) = <<req[w].member_id, req[w].today>>

\* the records of one key only, in sheet order
OwnRecords(m, d) ==
    LET Own(row) == row["member_id"] = m /\ row["date"] = d
    IN SelectSeq(get_all_records(attendance_sheet), Own)

\* what an arriving check-in decides is what it would decide on a sheet that
\* holds the rows of its own key only
OutcomeIgnoresOtherKeys ==
    \A c \in Clients, m \in MemberIds :
        Arrived(c, "checkin") =>
            /\ \A w \in Workers :
                  (req'[w] # req[w] /\ req'[w].member_id = m)
                  => req'[w].pc = Decide(OwnRecords(m, Today), m, Today)
            /\ (req' = req /\ response'.member_id = m
                    /\ response'.page = "checkin_success.html")
               => response'.message = Decide(OwnRecords(m, Today), m, Today)

\* C5: a check-in for (m, d) never changes a cell of a row with another
\* member_id or date, its outcome does not depend on the rows of other keys,
\* and under every interleaving the row number it computed still designates a
\* row with key (m, d) when its update_cell runs.
C5_Isolation ==
    [][OnlyOwnRowsChange /\ IndexStillOwn' /\ OutcomeIgnoresOtherKeys]_vars

\* a check-in holds a row number while a row of another key stands after it
C5_Witness ==
    \E w \in Workers :
        /\ req[w].pc = "checkin_update"
        /\ req[w].i < Len(attendance_sheet)
        /\ KeyOf(attendance_sheet[Len(attendance_sheet)])
                # <<req[w].member_id, req[w].today>>

----------------------------------------------------------------------------
(* C6 *)

\* C6: a check-in whose spreadsheet call fails ends with the error page, not
\* with one of the three success messages, and has written nothing; a success
\* message is returned only by a step that made its write.
C6_FailureNotSuccess ==
    [][(response' # response /\ response'.route = "checkin") =>
         /\ response'.page \in {"checkin_success.html", UnhandledException}
         /\ response'.page = UnhandledException =>
              /\ response'.message \notin Successes
              /\ attendance_sheet' = attendance_sheet
              /\ outcomes' = outcomes
         /\ response'.page = "checkin_success.html" =>
              response'.message \in Successes
         /\ response'.message = "Entry Marked" =>
              \E w \in Workers :
                  /\ Stepped(w, "checkin")
                  /\ attendance_sheet' = Append(attendance_sheet,
                        <<req[w].member_id, req[w].today, req[w].now_time, "">>)
         /\ response'.message = "Exit Marked" =>
              \E w \in Workers :
                  /\ Stepped(w, "checkin")
                  /\ Len(attendance_sheet') = Len(attendance_sheet)
                  /\ attendance_sheet'[req[w].i][4] = req[w].now_time
         /\ response'.message = "Already Checked In Today" =>
              attendance_sheet' = attendance_sheet]_vars

\* a check-in ended with the error page on a sheet that holds an open entry
C6_Witness ==
    /\ response.route = "checkin"
    /\ response.page = UnhandledException
    /\ \E r \in 2..Len(attendance_sheet) :
          /\ attendance_sheet[r][1] = response.member_id
          /\ attendance_sheet[r][4] = ""

----------------------------------------------------------------------------
(* C7 *)

\* C7: while the sheet holds two or more rows for a key, a check-in for that
\* key decides on the first of them in sheet order and writes only its exit
\* time, and only if it is empty; the later rows of the key never change and
\* no row is added for the key.
C7_FirstMatchWins ==
    [][\A k \in Keys :
         Cardinality(RowsFor(attendance_sheet, k)) >= 2 =>
           LET first == FirstRowFor(attendance_sheet, k)
           IN /\ Len(attendance_sheet') >= Len(attendance_sheet)
              /\ RowsFor(attendance_sheet', k) = RowsFor(attendance_sheet, k)
              /\ \A r \in RowsFor(attendance_sheet, k) \ {first} :
                    attendance_sheet'[r] = attendance_sheet[r]
              /\ attendance_sheet'[first] # attendance_sheet[first] =>
                    /\ attendance_sheet[first][4] = ""
                    /\ \E w \in Workers :
                          /\ Stepped(w, "checkin")
                          /\ attendance_sheet'[first] =
                                [attendance_sheet[first] EXCEPT ![4] = req[w].now_time]
              /\ \A c \in Clients :
                    (Arrived(c, "checkin") /\ k[2] = Today
                        /\ response'.page # UnhandledException
                        /\ \/ req' = req /\ response'.member_id = k[1]
                           \/ \E w \in Workers : req'[w] # req[w]
                                                  /\ req'[w].member_id = k[1])
                    => IF attendance_sheet[first][4] = ""
                       THEN \E w \in Workers : /\ req'[w].pc = "checkin_update"
                                               /\ req'[w].i = first
                       ELSE /\ req' = req
                            /\ response'.message = "Already Checked In Today"]_vars

\* the first of two rows got its exit time while the second already had one
C7_Witness ==
    \E k \in Keys :
        /\ Cardinality(RowsFor(attendance_sheet, k)) >= 2
        /\ outcomes[k] = <<"Exit Marked">>
        /\ \A r \in RowsFor(attendance_sheet, k) : attendance_sheet[r][4] # ""
        /\ attendance_sheet[FirstRowFor(attendance_sheet, k)][4] = "18:30:00"

----------------------------------------------------------------------------
(* C8 *)

\* C8: no two rows of the members sheet have the same member_id, and the k-th
\* member of the sheet has 'M' followed by k padded to three digits.
C8_UniqueMemberIds ==
    /\ \A r, q \in 2..Len(members_sheet) :
          r # q => members_sheet[r][1] # members_sheet[q][1]
    /\ \A r \in 2..Len(members_sheet) :
          members_sheet[r][1] = FormatMemberId(r - 1)

----------------------------------------------------------------------------
(* C9 *)

\* C9: no step changes or removes a row of the payments ledger; an add_member
\* or a renewal that completes appends, in its last step and in no other, one
\* row with its member_id and the submitted fee; nothing else but the startup
\* migration adds rows.
C9_LedgerAppendOnly ==
    [][LET old == Ledger(payments_sheet)
           new == Ledger(payments_sheet')
           Paying(w) == /\ req[w].pc \in {"add_payment_row", "renew_payment_row"}
                        /\ req'[w] # req[w]
                        /\ response'.page \in {"redirect:qr_code", "redirect:members"}
       IN /\ Len(new) >= Len(old)
          /\ \A r \in 1..Len(old) : new[r] = old[r]
          /\ \A w \in Workers :
                Paying(w) => /\ Len(new) = Len(old) + 1
                             /\ new[Len(new)][2] = req[w].member_id
                             /\ new[Len(new)][3] = req[w].fees
          /\ (booted /\ \A w \in Workers : ~Paying(w)) => new = old]_vars

\* a renewal was recorded after the ledger already held the member's joining
C9_Witness ==
    /\ response.route = "renew_membership"
    /\ response.message = "Payment recorded."
    /\ Len(Ledger(payments_sheet)) >= 3
    /\ Ledger(payments_sheet)[Len(payments_sheet)][3] = "800"

----------------------------------------------------------------------------
(* C10 *)

\* C10: a request for a protected page whose session lacks 'logged_in' is
\* redirected to login and touches no worksheet; 'logged_in' enters a session
\* only by a login POST with ADMIN_ID and ADMIN_PASSWORD and is absent after
\* logout; checkin is served whatever the session holds and never changes the
\* members sheet.
C10_SessionGate ==
    [][\A c \in Clients :
         /\ \A route \in Protected :
               (Arrived(c, route) /\ "logged_in" \notin session[c])
               => /\ req' = req
                  /\ response'.page = "redirect:login"
                  /\ sheets' = sheets
         /\ ("logged_in" \notin session[c] /\ "logged_in" \in session'[c])
               => /\ Arrived(c, "login")
                  /\ response'.form = <<ADMIN_ID, ADMIN_PASSWORD>>
         /\ Arrived(c, "logout") => session'[c] = {}
         /\ Arrived(c, "checkin")
               => /\ response'.page # "redirect:login"
                  /\ members_sheet' = members_sheet
                  /\ req' = req => response'.page \in
                                      {"checkin_success.html", UnhandledException}
         /\ \A w \in Workers :
               Stepped(w, "checkin") => members_sheet' = members_sheet]_vars

\* a browser without 'logged_in' is turned away while another is logged in
C10_Witness ==
    /\ response.route \in Protected
    /\ response.page = "redirect:login"
    /\ "logged_in" \notin session[response.client]
    /\ \E c \in Clients : "logged_in" \in session[c]

====
